---- MODULE Spec2Model ----
(***************************************************************************)
(* Himada: historical market data downloader (src/src/himada/app.py).      *)
(*                                                                         *)
(* The model covers the decision logic of the application:                 *)
(*   - enforce_yahoo_limits, the limit enforcer (a pure function plus a    *)
(*     log side effect);                                                   *)
(*   - fetch_and_save_csv, the fetch-and-export pipeline, one step of the  *)
(*     function per action so that orderings can be observed;              *)
(*   - HimadaApp.download, the UI handler that parses the ticker text,     *)
(*     validates, builds the DownloadConfig and calls the pipeline inside  *)
(*     try/finally.                                                        *)
(*                                                                         *)
(* Strings that the code transforms (ticker text) are sequences of         *)
(* one-character strings, so that strip, split and replace are computed.   *)
(* The provider (yfinance), pandas and the filesystem are external: their  *)
(* outcomes are nondeterministic choices.  A behaviour is one run: one     *)
(* click on Download, or one direct call of fetch_and_save_csv.            *)
(***************************************************************************)
EXTENDS Naturals, Sequences, FiniteSets

VARIABLES
    pc,         \* position of the single thread of control
    caller,     \* "none" | "ui" (HimadaApp.download) | "direct" (the function called as a library)
    cfg,        \* the DownloadConfig of the run (mutated by the clamp)
    cfg0,       \* ghost: the DownloadConfig as constructed
    i,          \* 1-based position of the for loop over cfg.tickers
    df,         \* the table of the ticker being processed
    log,        \* the lines handed to the log callback, in order
    files,      \* CSV files in out_dir: set of [name, by, dates]
    fetches,    \* ghost: the tk.history calls made, in order
    clamps,     \* ghost: the enforce_yahoo_limits calls, with what they returned
    dirExists,  \* out_dir exists
    exc,        \* exception propagating out of fetch_and_save_csv ("none" if none)
    btn_download, \* the download button is enabled
    dialog,     \* QMessageBox shown by download ("none" if none)
    uncaught    \* exception that left download() uncaught ("none" if none)

vars == <<pc, caller, cfg, cfg0, i, df, log, files, fetches, clamps, dirExists,
          exc, btn_download, dialog, uncaught>>

None == "None"

(***************************************************************************)
(* Bounds of the model.                                                    *)
(***************************************************************************)
\* longest ticker list handed to fetch_and_save_csv by a direct call
MaxTickers == 2

(***************************************************************************)
(* String helpers: Python's str.strip, str.replace (one character) and     *)
(* str.split(" ") on sequences of one-character strings.                   *)
(***************************************************************************)
Whitespace == {" ", "\t", "\n"}

RECURSIVE lstrip(_)
lstrip(s) ==
    IF s # <<>> /\ Head(s) \in Whitespace THEN lstrip(Tail(s)) ELSE s

RECURSIVE rstrip(_)
rstrip(s) ==
    IF s # <<>> /\ s[Len(s)] \in Whitespace
    THEN rstrip(SubSeq(s, 1, Len(s) - 1))
    ELSE s

strip(s) == rstrip(lstrip(s))

replace(s, old, new) == [k \in 1..Len(s) |-> IF s[k] = old THEN new ELSE s[k]]

\* s.split(sep): every occurrence of sep ends a piece, empty pieces are kept
RECURSIVE splitFrom(_, _, _)
splitFrom(s, sep, piece) ==
    IF s = <<>> THEN <<piece>>
    ELSE IF Head(s) = sep
         THEN <<piece>> \o splitFrom(Tail(s), sep, <<>>)
         ELSE splitFrom(Tail(s), sep, Append(piece, Head(s)))

split(s, sep) == splitFrom(s, sep, <<>>)

(***************************************************************************)
(* Program constants.                                                      *)
(***************************************************************************)
IntradayIntervals == {"1m", "2m", "5m", "15m", "30m", "60m", "90m", "1h"}

longish == {None, "max", "ytd", "10y", "5y", "2y", "1y", "6mo", "3mo"}

ModeItems == {"Date range (start/end)", "Duration (period)", "Maximum available (max)"}

PeriodItems == {"1d", "5d", "1mo", "3mo", "6mo", "1y", "2y", "5y", "10y", "ytd", "max"}

IntervalItems == {"1d", "1wk", "1mo", "1h", "30m", "15m", "5m", "2m", "1m"}

(***************************************************************************)
(* Log lines.  idx is a ghost field: the list position of the entry the    *)
(* line is about (0 for the clamp warnings), so that duplicates in the     *)
(* ticker list can be told apart.                                          *)
(***************************************************************************)
Line(kind, ticker, idx) == [kind |-> kind, ticker |-> ticker, idx |-> idx]

Warn7d == Line("clamp_7d", <<>>, 0)
Warn60d == Line("clamp_60d", <<>>, 0)

(***************************************************************************)
(* enforce_yahoo_limits(interval, requested_mode, requested_period, log):  *)
(* the returned pair and the lines it passes to log.                       *)
(***************************************************************************)
\* variant: the 1m case is missing, every intraday interval clamps to 60d
enforce_without_1m_case(interval, requested_mode, requested_period) ==
    LET intraday == interval \in IntradayIntervals
    IN  IF intraday /\ requested_mode \in {"max", "period"} /\ requested_period \in longish
        THEN [mode |-> "period", period |-> "60d", lines |-> <<Warn60d>>]
        ELSE [mode |-> requested_mode, period |-> requested_period, lines |-> <<>>]

\* variant: the mode is not looked at, explicit ranges are clamped too
enforce_any_mode(interval, requested_mode, requested_period) ==
    LET intraday == interval \in IntradayIntervals
    IN  IF intraday /\ requested_period \in longish
        THEN IF interval = "1m"
             THEN [mode |-> "period", period |-> "7d", lines |-> <<Warn7d>>]
             ELSE [mode |-> "period", period |-> "60d", lines |-> <<Warn60d>>]
        ELSE [mode |-> requested_mode, period |-> requested_period, lines |-> <<>>]

enforce_yahoo_limits(interval, requested_mode, requested_period) ==
    LET intraday == interval \in IntradayIntervals
    IN  IF ~intraday
        THEN [mode |-> requested_mode, period |-> requested_period, lines |-> <<>>]
        ELSE IF requested_mode \in {"max", "period"} /\ requested_period \in longish
             THEN IF interval = "1m"
                  THEN [mode |-> "period", period |-> "7d", lines |-> <<Warn7d>>]
                  ELSE [mode |-> "period", period |-> "60d", lines |-> <<Warn60d>>]
             ELSE [mode |-> requested_mode, period |-> requested_period, lines |-> <<>>]

(***************************************************************************)
(* DownloadConfig.                                                         *)
(***************************************************************************)
DownloadConfig(tickers, interval, include_actions, auto_adjust, out_dir, mode, start, end, period) ==
    [tickers |-> tickers, interval |-> interval, include_actions |-> include_actions,
     auto_adjust |-> auto_adjust, out_dir |-> out_dir, mode |-> mode,
     start |-> start, end |-> end, period |-> period]

NoConfig == DownloadConfig(<<>>, None, FALSE, FALSE, None, None, None, None, None)

(***************************************************************************)
(* Inputs.  Dates are day numbers; QDate.toString("yyyy-MM-dd") renders    *)
(* them.                                                                   *)
(***************************************************************************)
Days == 1..2

toString(d) == <<"2024-01-01", "2024-01-02", "2024-01-03">>[d]

\* (include_actions, auto_adjust) as ticked in the two check boxes
OptionChoices == BOOLEAN \X BOOLEAN

\* texts of the tickers line edit
RawTexts ==
    { <<>>,
      <<" ">>,
      <<",">>,
      <<"A">>,
      <<"A", ",", " ", "A">>,
      <<"A", "/", "B", "\n", "A", "_", "B">>,
      <<" ", "\t", "A", " ", "\t", " ", "B", ",">> }

\* entries of a ticker list handed to the pipeline by a direct call
TickerEntries == { <<"A", "/", "B">>, <<"A", "_", "B">>, <<" ", "C", " ">>, <<" ">>, <<>> }

TickerLists == UNION { [1..n -> TickerEntries] : n \in 0..MaxTickers }

\* (mode, start, end, period) of a configuration built by a direct caller
DirectShapes ==
    { <<"range", toString(1), toString(2), None>>,
      <<"period", None, None, "5d">>,
      <<"period", None, None, "1y">>,
      <<"period", None, None, None>>,
      <<"max", None, None, None>> }

DirectIntervals == {"1d", "90m", "1m"}

(***************************************************************************)
(* HimadaApp.download: parsing of the ticker text.                         *)
(***************************************************************************)
parse_tickers(raw) ==
    SelectSeq(split(replace(replace(raw, "\n", " "), ",", " "), " "),
              LAMBDA t : strip(t) # <<>>)

is_range(mode_text) == mode_text = "Date range (start/end)"
is_period(mode_text) == mode_text = "Duration (period)"

\* lines 366-372 and 381-388: the mode and period of the configuration
ui_mode(mode_text, p) ==
    IF is_range(mode_text) THEN "range"
    ELSE IF is_period(mode_text) THEN (IF p = "max" THEN "max" ELSE "period")
    ELSE "max"

\* variant: the period chosen in the combo box is kept when it is "max"
ui_period_keeps_max(mode_text, p) ==
    IF is_period(mode_text) THEN p ELSE None

ui_period(mode_text, p) ==
    IF is_period(mode_text) /\ p # "max" THEN p ELSE None

\* lines 390-400
build_config(tickers, interval, opts, mode_text, p, startDate, endDate) ==
    LET mode == ui_mode(mode_text, p)
    IN  DownloadConfig(tickers, interval, opts[1], opts[2], "out_dir", mode,
                       IF mode = "range" THEN toString(startDate) ELSE None,
                       IF mode = "range" THEN toString(endDate) ELSE None,
                       ui_period(mode_text, p))

(***************************************************************************)
(* Initial state: the window is up, nothing has been started.              *)
(***************************************************************************)
Init ==
    /\ pc = "idle"
    /\ caller = "none"
    /\ cfg = NoConfig
    /\ cfg0 = NoConfig
    /\ i = 0
    /\ df = [table |-> "none", file_tag |-> <<>>]
    /\ log = <<>>
    /\ files = {}
    /\ fetches = <<>>
    /\ clamps = <<>>
    /\ dirExists = FALSE
    /\ exc = "none"
    /\ btn_download = TRUE
    /\ dialog = "none"
    /\ uncaught = "none"

run_vars == <<i, df, log, files, fetches, clamps, dirExists, exc>>

\* download(), lines 352-356: nothing but white space in the line edit
DownloadMissing(raw) ==
    /\ pc = "idle"
    /\ strip(raw) = <<>>
    /\ dialog' = "Missing tickers"
    /\ pc' = "returned"
    /\ caller' = "ui"
    /\ UNCHANGED <<cfg, cfg0, run_vars, btn_download, uncaught>>

\* download(), lines 358-362: no ticker left after splitting
DownloadInvalid(raw) ==
    /\ pc = "idle"
    /\ strip(raw) # <<>>
    /\ parse_tickers(strip(raw)) = <<>>
    /\ dialog' = "Invalid tickers"
    /\ pc' = "returned"
    /\ caller' = "ui"
    /\ UNCHANGED <<cfg, cfg0, run_vars, btn_download, uncaught>>

\* download(), lines 364-379: range mode with start >= end
DownloadBadDates(raw, mode_text, startDate, endDate) ==
    /\ pc = "idle"
    /\ strip(raw) # <<>>
    /\ parse_tickers(strip(raw)) # <<>>
    /\ is_range(mode_text) /\ startDate >= endDate
    /\ dialog' = "Invalid dates"
    /\ pc' = "returned"
    /\ caller' = "ui"
    /\ UNCHANGED <<cfg, cfg0, run_vars, btn_download, uncaught>>

\* download(), lines 381-404: the configuration is built, the button is
\* disabled and fetch_and_save_csv is entered
DownloadStart(raw, mode_text, p, interval, opts, startDate, endDate) ==
    /\ pc = "idle"
    /\ strip(raw) # <<>>
    /\ parse_tickers(strip(raw)) # <<>>
    /\ ~(is_range(mode_text) /\ startDate >= endDate)
    /\ cfg' = build_config(parse_tickers(strip(raw)), interval, opts, mode_text, p,
                           startDate, endDate)
    /\ cfg0' = cfg'
    /\ btn_download' = FALSE
    /\ caller' = "ui"
    /\ pc' = "mkdir"
    /\ UNCHANGED <<run_vars, dialog, uncaught>>

download ==
    /\ pc = "idle"
    /\ \E raw \in RawTexts :
        \/ DownloadMissing(raw)
        \/ DownloadInvalid(raw)
        \/ \E mode_text \in ModeItems, startDate \in Days, endDate \in Days :
            \/ DownloadBadDates(raw, mode_text, startDate, endDate)
            \/ \E p \in PeriodItems, interval \in IntervalItems, opts \in OptionChoices :
                DownloadStart(raw, mode_text, p, interval, opts, startDate, endDate)

\* fetch_and_save_csv(cfg, log) called directly with a configuration of the
\* caller's making
DirectCall ==
    /\ pc = "idle"
    /\ \E tickers \in TickerLists, interval \in DirectIntervals, shape \in DirectShapes :
        /\ cfg' = DownloadConfig(tickers, interval, FALSE, TRUE, "out_dir",
                                 shape[1], shape[2], shape[3], shape[4])
        /\ cfg0' = cfg'
        /\ caller' = "direct"
        /\ pc' = "mkdir"
        /\ UNCHANGED <<run_vars, btn_download, dialog, uncaught>>

(***************************************************************************)
(* fetch_and_save_csv(cfg, log), one action per step.                      *)
(***************************************************************************)
NoTable == [table |-> "none", file_tag |-> <<>>]

\* what tk.history can hand back: nothing, a table without rows, or a table
\* with rows whose index is
\*   naive: datetimes without time zone      aware: datetimes with a time zone
\*   stuck: datetimes whose time zone tz_localize(None) cannot remove
\*   plain: not datetimes                    clash: any, beside a column named Date
EmptyTables == {"absent", "empty"}
DataTables == {"naive", "aware", "stuck", "plain", "clash"}

\* line 66: cfg.out_dir.mkdir(parents=True, exist_ok=True), not in any try
EnsureDirOk ==
    /\ pc = "mkdir"
    /\ dirExists' = TRUE
    /\ pc' = "clamp"
    /\ UNCHANGED <<caller, cfg, cfg0, i, df, log, files, fetches, clamps, exc,
                   btn_download, dialog, uncaught>>

EnsureDirFail ==
    /\ pc = "mkdir"
    /\ exc' = "OSError"
    /\ pc' = "raised"
    /\ UNCHANGED <<caller, cfg, cfg0, i, df, log, files, fetches, clamps, dirExists,
                   btn_download, dialog, uncaught>>

\* line 69, and the for loop is entered
Clamp ==
    /\ pc = "clamp"
    /\ LET r == enforce_yahoo_limits(cfg.interval, cfg.mode, cfg.period)
       IN  /\ cfg' = [cfg EXCEPT !.mode = r.mode, !.period = r.period]
           /\ log' = log \o r.lines
           /\ clamps' = Append(clamps, [mode |-> r.mode, period |-> r.period])
    /\ i' = 1
    /\ pc' = "loop"
    /\ UNCHANGED <<caller, cfg0, df, files, fetches, dirExists, exc,
                   btn_download, dialog, uncaught>>

\* line 71: the list is exhausted, the function returns
LoopEnd ==
    /\ pc = "loop"
    /\ i > Len(cfg.tickers)
    /\ pc' = "done"
    /\ UNCHANGED <<caller, cfg, cfg0, i, df, log, files, fetches, clamps, dirExists,
                   exc, btn_download, dialog, uncaught>>

\* lines 72-74: a blank entry
SkipBlank ==
    /\ pc = "loop"
    /\ i <= Len(cfg.tickers)
    /\ strip(cfg.tickers[i]) = <<>>
    /\ i' = i + 1
    /\ UNCHANGED <<pc, caller, cfg, cfg0, df, log, files, fetches, clamps, dirExists,
                   exc, btn_download, dialog, uncaught>>

\* line 76
FetchStart ==
    /\ pc = "loop"
    /\ i <= Len(cfg.tickers)
    /\ strip(cfg.tickers[i]) # <<>>
    /\ log' = Append(log, Line("fetching", strip(cfg.tickers[i]), i))
    /\ pc' = "fetch"
    /\ UNCHANGED <<caller, cfg, cfg0, i, df, files, fetches, clamps, dirExists,
                   exc, btn_download, dialog, uncaught>>

\* lines 81-108: the arguments of tk.history and the file tag, by mode
\* variant: the call is shaped by the mode and period as requested, not as
\* returned by the enforcer
history_call_as_requested(c, ticker, idx) ==
    LET shape == IF cfg0.mode = "range" THEN [start |-> c.start, end |-> c.end, period |-> None]
                 ELSE IF cfg0.mode = "period"
                      THEN [start |-> None, end |-> None,
                            period |-> IF cfg0.period = None THEN "1mo" ELSE cfg0.period]
                      ELSE [start |-> None, end |-> None, period |-> "max"]
    IN  [idx |-> idx, ticker |-> ticker, mode |-> cfg0.mode,
         start |-> shape.start, end |-> shape.end, period |-> shape.period,
         interval |-> c.interval, actions |-> c.include_actions,
         auto_adjust |-> c.auto_adjust]

history_call(c, ticker, idx) ==
    LET shape == IF c.mode = "range" THEN [start |-> c.start, end |-> c.end, period |-> None]
                 ELSE IF c.mode = "period"
                      THEN [start |-> None, end |-> None,
                            period |-> IF c.period = None THEN "1mo" ELSE c.period]
                      ELSE [start |-> None, end |-> None, period |-> "max"]
    IN  [idx |-> idx, ticker |-> ticker, mode |-> c.mode,
         start |-> shape.start, end |-> shape.end, period |-> shape.period,
         interval |-> c.interval, actions |-> c.include_actions,
         auto_adjust |-> c.auto_adjust]

file_tag(c) ==
    IF c.mode = "range" THEN <<c.start, c.end>>
    ELSE IF c.mode = "period" THEN <<IF c.period = None THEN "1mo" ELSE c.period>>
    ELSE <<"max">>

\* lines 78-112: the provider raises; the error is logged, next entry
FetchRaise ==
    /\ pc = "fetch"
    /\ fetches' = Append(fetches, history_call(cfg, strip(cfg.tickers[i]), i))
    /\ log' = Append(log, Line("fetch_error", strip(cfg.tickers[i]), i))
    /\ i' = i + 1
    /\ pc' = "loop"
    /\ UNCHANGED <<caller, cfg, cfg0, df, files, clamps, dirExists, exc,
                   btn_download, dialog, uncaught>>

\* lines 78-108: the provider returns
FetchReturn ==
    /\ pc = "fetch"
    /\ \E t \in EmptyTables \cup DataTables :
        /\ fetches' = Append(fetches, history_call(cfg, strip(cfg.tickers[i]), i))
        /\ df' = [table |-> t, file_tag |-> file_tag(cfg)]
        /\ pc' = "check"
        /\ UNCHANGED <<caller, cfg, cfg0, i, log, files, clamps, dirExists, exc,
                       btn_download, dialog, uncaught>>

\* lines 114-116
\* variant: an empty result is reported as a fetch error
NoData_as_error ==
    /\ pc = "check"
    /\ df.table \in EmptyTables
    /\ log' = Append(log, Line("fetch_error", strip(cfg.tickers[i]), i))
    /\ df' = NoTable
    /\ i' = i + 1
    /\ pc' = "loop"
    /\ UNCHANGED <<caller, cfg, cfg0, files, fetches, clamps, dirExists, exc,
                   btn_download, dialog, uncaught>>

NoData ==
    /\ pc = "check"
    /\ df.table \in EmptyTables
    /\ log' = Append(log, Line("no_data", strip(cfg.tickers[i]), i))
    /\ df' = NoTable
    /\ i' = i + 1
    /\ pc' = "loop"
    /\ UNCHANGED <<caller, cfg, cfg0, files, fetches, clamps, dirExists, exc,
                   btn_download, dialog, uncaught>>

\* lines 119-128: the value of the Date column after normalisation.
\* tz_localize(None) sits in try/except: pass; the rest does not.
normalized(t) ==
    IF t = "aware" THEN "naive" ELSE IF t = "stuck" THEN "aware" ELSE t

\* lines 119-128, the table has rows and reset_index succeeds
Normalize ==
    /\ pc = "check"
    /\ df.table \in DataTables \ {"clash"}
    /\ df' = [df EXCEPT !.table = normalized(df.table)]
    /\ pc' = "write"
    /\ UNCHANGED <<caller, cfg, cfg0, i, log, files, fetches, clamps, dirExists, exc,
                   btn_download, dialog, uncaught>>

\* line 121: reset_index raises ValueError (cannot insert Date, already
\* exists); no try encloses it, the exception leaves the function
NormalizeRaise ==
    /\ pc = "check"
    /\ df.table = "clash"
    /\ exc' = "ValueError"
    /\ pc' = "raised"
    /\ UNCHANGED <<caller, cfg, cfg0, i, df, log, files, fetches, clamps, dirExists,
                   btn_download, dialog, uncaught>>

\* line 130
\* variant: the slashes of the ticker are left in the file name
out_file_unsanitized(c, ticker, tag) ==
    [stem |-> ticker, interval |-> c.interval, tag |-> tag]

out_file(c, ticker, tag) ==
    [stem |-> replace(ticker, "/", "_"), interval |-> c.interval, tag |-> tag]

\* lines 131-133: the file is written (an existing file of that name is replaced)
WriteOk ==
    /\ pc = "write"
    /\ LET f == out_file(cfg, strip(cfg.tickers[i]), df.file_tag)
       IN  /\ files' = {g \in files : g.name # f}
                         \cup {[name |-> f, by |-> i, dates |-> df.table]}
           /\ log' = Append(log, Line("saved", strip(cfg.tickers[i]), i))
    /\ df' = NoTable
    /\ i' = i + 1
    /\ pc' = "loop"
    /\ UNCHANGED <<caller, cfg, cfg0, fetches, clamps, dirExists, exc,
                   btn_download, dialog, uncaught>>

\* lines 134-135: to_csv raises; the error is logged
WriteFail ==
    /\ pc = "write"
    /\ log' = Append(log, Line("save_error", strip(cfg.tickers[i]), i))
    /\ df' = NoTable
    /\ i' = i + 1
    /\ pc' = "loop"
    /\ UNCHANGED <<caller, cfg, cfg0, files, fetches, clamps, dirExists, exc,
                   btn_download, dialog, uncaught>>

fetch_and_save_csv ==
    \/ EnsureDirOk \/ EnsureDirFail
    \/ Clamp
    \/ LoopEnd \/ SkipBlank \/ FetchStart
    \/ FetchRaise \/ FetchReturn
    \/ NoData \/ Normalize \/ NormalizeRaise
    \/ WriteOk \/ WriteFail

\* download(), lines 403-406: try: ... finally: setEnabled(True).  There is
\* no except clause: an exception of the pipeline leaves download().
DownloadFinally ==
    /\ caller = "ui"
    /\ pc \in {"done", "raised"}
    /\ btn_download' = TRUE
    /\ uncaught' = exc
    /\ pc' = "returned"
    /\ UNCHANGED <<caller, cfg, cfg0, run_vars, dialog>>

Next == download \/ DirectCall \/ fetch_and_save_csv \/ DownloadFinally

Spec == Init /\ [][Next]_vars

(***************************************************************************)
(* enforce_yahoo_limits on its own: every interval, mode and period the    *)
(* function can be given, one call.                                        *)
(***************************************************************************)
EnforceIntervals == IntradayIntervals \cup {"1d", "5d", "1wk", "1mo", "3mo"}
EnforceModes == {"range", "period", "max"}
EnforcePeriods == PeriodItems \cup {None, "7d", "60d"}

EnforceInit ==
    /\ pc = "enforce_call"
    /\ caller = "direct"
    /\ \E interval \in EnforceIntervals, mode \in EnforceModes, period \in EnforcePeriods :
           cfg = DownloadConfig(<<>>, interval, FALSE, TRUE, "out_dir", mode, None, None, period)
    /\ cfg0 = cfg
    /\ i = 0
    /\ df = NoTable
    /\ log = <<>>
    /\ files = {}
    /\ fetches = <<>>
    /\ clamps = <<>>
    /\ dirExists = FALSE
    /\ exc = "none"
    /\ btn_download = TRUE
    /\ dialog = "none"
    /\ uncaught = "none"

EnforceCall ==
    /\ pc = "enforce_call"
    /\ LET r == enforce_yahoo_limits(cfg.interval, cfg.mode, cfg.period)
       IN  /\ cfg' = [cfg EXCEPT !.mode = r.mode, !.period = r.period]
           /\ log' = log \o r.lines
           /\ clamps' = Append(clamps, [mode |-> r.mode, period |-> r.period])
    /\ pc' = "enforce_ret"
    /\ UNCHANGED <<caller, cfg0, i, df, files, fetches, dirExists, exc,
                   btn_download, dialog, uncaught>>

EnforceSpec == EnforceInit /\ [][EnforceCall]_vars

(***************************************************************************)
(* Properties.                                                             *)
(***************************************************************************)

\* C2. Clamp case of enforce_yahoo_limits: for an intraday interval, a mode
\* of period or max and a period of the long set, the call returns
\* ("period", "7d") for 1m and ("period", "60d") otherwise, and passes
\* exactly one warning line to log.
C2_ClampCase ==
    ( /\ pc = "enforce_ret"
      /\ cfg0.interval \in {"1m", "2m", "5m", "15m", "30m", "60m", "90m", "1h"}
      /\ cfg0.mode \in {"period", "max"}
      /\ cfg0.period \in {None, "max", "ytd", "10y", "5y", "2y", "1y", "6mo", "3mo"} )
    => /\ cfg.mode = "period"
       /\ cfg.period = (IF cfg0.interval = "1m" THEN "7d" ELSE "60d")
       /\ Len(log) = 1
       /\ log[1].kind = (IF cfg0.interval = "1m" THEN "clamp_7d" ELSE "clamp_60d")

C2_Witness ==
    /\ pc = "enforce_ret"
    /\ cfg0.interval = "1m" /\ cfg0.mode = "max" /\ cfg0.period = None
    /\ cfg.mode = "period" /\ cfg.period = "7d" /\ Len(log) = 1

\* C3. Identity case of enforce_yahoo_limits: mode and period come back
\* unchanged and nothing is logged when the interval is not intraday, when
\* the mode is range, and when the period is not of the long set.
C3_IdentityCase ==
    ( /\ pc = "enforce_ret"
      /\ \/ cfg0.interval \notin {"1m", "2m", "5m", "15m", "30m", "60m", "90m", "1h"}
         \/ cfg0.mode = "range"
         \/ cfg0.period \notin {None, "max", "ytd", "10y", "5y", "2y", "1y", "6mo", "3mo"} )
    => /\ cfg.mode = cfg0.mode
       /\ cfg.period = cfg0.period
       /\ log = <<>>

C3_Witness ==
    /\ pc = "enforce_ret"
    /\ cfg0.interval = "1m" /\ cfg0.mode = "range" /\ cfg0.period = "max"
    /\ cfg.mode = "range" /\ cfg.period = "max" /\ log = <<>>

\* the mode/field rule of DownloadConfig
ModeFields(c) ==
    /\ (c.start # None) <=> (c.mode = "range")
    /\ (c.end # None) <=> (c.mode = "range")
    /\ (c.period # None) <=> (c.mode = "period")
    /\ c.mode \in {"range", "period", "max"}

\* C10. Every configuration built by download satisfies the mode/field rule
\* (start and end set exactly in range mode, period set exactly in period
\* mode, nothing set in max mode), as built and after the enforcer rewrote it.
C10_ModeFieldInvariant ==
    (caller = "ui" /\ dialog = "none")
    => ModeFields(cfg0) /\ ModeFields(cfg)

C10_Witness ==
    /\ caller = "ui" /\ pc = "done"
    /\ cfg0.mode = "max" /\ cfg0.period = None
    /\ cfg.mode = "period" /\ cfg.period = "60d"

\* C9. The enforcer is called once, after the directory exists and before
\* the first fetch; every fetch is shaped by the mode and period it returned;
\* no other field of the configuration changes.
C9_ClampThenFetch ==
    /\ Len(clamps) <= 1
    /\ (~dirExists \/ pc \in {"idle", "mkdir", "clamp"}) => (clamps = <<>> /\ fetches = <<>>)
    /\ pc \in {"loop", "fetch", "check", "write", "done"} => Len(clamps) = 1
    /\ fetches # <<>> => Len(clamps) = 1
    /\ \A n \in 1..Len(fetches) :
        LET f == fetches[n]
            eff == clamps[1]
        IN  /\ f.mode = eff.mode
            /\ eff.mode = "range" => f.start = cfg0.start /\ f.end = cfg0.end /\ f.period = None
            /\ eff.mode = "period" =>
                   /\ f.period = (IF eff.period = None THEN "1mo" ELSE eff.period)
                   /\ f.start = None /\ f.end = None
            /\ eff.mode = "max" => f.period = "max" /\ f.start = None /\ f.end = None
            /\ f.interval = cfg0.interval
            /\ f.actions = cfg0.include_actions
            /\ f.auto_adjust = cfg0.auto_adjust
    /\ Len(clamps) = 1 => cfg.mode = clamps[1].mode /\ cfg.period = clamps[1].period
    /\ cfg.tickers = cfg0.tickers
    /\ cfg.interval = cfg0.interval
    /\ cfg.include_actions = cfg0.include_actions
    /\ cfg.auto_adjust = cfg0.auto_adjust
    /\ cfg.out_dir = cfg0.out_dir
    /\ cfg.start = cfg0.start
    /\ cfg.end = cfg0.end

C9_Witness ==
    /\ pc = "done"
    /\ Len(fetches) = 2
    /\ cfg0.mode = "max" /\ cfg.mode = "period" /\ cfg.period = "7d"
    /\ fetches[1].period = "7d" /\ fetches[2].period = "7d"

\* helpers of the properties below, written without the model's operators
Blank(t) == \A j \in 1..Len(t) : t[j] \in {" ", "\t", "\n"}

NonBlankEntries == {k \in 1..Len(cfg0.tickers) : ~Blank(cfg0.tickers[k])}

LinesOf(kinds, k) == {n \in 1..Len(log) : log[n].kind \in kinds /\ log[n].idx = k}

OutcomeKinds == {"saved", "no_data", "fetch_error", "save_error"}

RunOver == pc \in {"done", "raised", "returned"}

\* C5. Once the directory exists, fetch_and_save_csv never raises: whatever
\* the provider, the normalisation and the write do, the run reaches Done.
C5_NeverRaises ==
    dirExists => (exc = "none" /\ pc # "raised" /\ uncaught = "none")

\* C1. Per-ticker isolation: once the directory exists, every non-blank
\* entry is fetched exactly once, in list order, however earlier entries
\* ended; each entry has at most one error line.
C1_PerTickerIsolation ==
    (dirExists /\ RunOver) =>
        /\ Len(fetches) = Cardinality(NonBlankEntries)
        /\ \A n \in 1..Len(fetches) : fetches[n].idx \in NonBlankEntries
        /\ \A m, n \in 1..Len(fetches) : m < n => fetches[m].idx < fetches[n].idx
        /\ \A k \in 1..Len(cfg0.tickers) :
               Cardinality(LinesOf({"fetch_error", "save_error"}, k)) <= 1

\* C4. Log shape of a finished run: each non-blank entry has one
\* fetch-start line followed by one outcome line (saved, no data, fetch
\* error or save error); blank entries have no line and no file; the only
\* other line is at most one clamp warning, ahead of every fetch-start line.
C4_OneLinePerOutcome ==
    (dirExists /\ RunOver) =>
        /\ \A k \in NonBlankEntries :
               /\ Cardinality(LinesOf({"fetching"}, k)) = 1
               /\ Cardinality(LinesOf(OutcomeKinds, k)) = 1
               /\ \A m \in LinesOf({"fetching"}, k), n \in LinesOf(OutcomeKinds, k) : n = m + 1
        /\ \A k \in (1..Len(cfg0.tickers)) \ NonBlankEntries :
               /\ LinesOf(OutcomeKinds \cup {"fetching"}, k) = {}
               /\ \A f \in files : f.by # k
        /\ \A n \in 1..Len(log) :
               log[n].kind \in {"clamp_7d", "clamp_60d"} => n = 1
        /\ \A n \in 1..Len(log) :
               log[n].kind \in OutcomeKinds \cup {"fetching", "clamp_7d", "clamp_60d"}

\* C6. A failure to create out_dir: the pipeline has done nothing (no
\* clamp, no fetch, no log line, no file) and has not caught the error; the
\* download action catches it and shows it as one failure, and the button
\* is enabled again.
C6_DirErrorCaughtByCaller ==
    (caller = "ui" /\ pc = "returned" /\ exc = "OSError") =>
        /\ clamps = <<>> /\ fetches = <<>> /\ log = <<>> /\ files = {}
        /\ uncaught = "none"
        /\ dialog # "none"
        /\ btn_download

\* C7 as claimed: after the run there are as many files as entries whose
\* fetch had rows and whose write succeeded, none replaced by a later entry.
C7_OneFilePerSavedEntry ==
    RunOver =>
        /\ Cardinality(files) = Cardinality({k \in 1..Len(cfg0.tickers) : LinesOf({"saved"}, k) # {}})
        /\ \A k \in 1..Len(cfg0.tickers) :
               LinesOf({"saved"}, k) # {} => \E f \in files : f.by = k

\* the file name the code derives from an entry: the trimmed ticker with
\* every "/" turned into "_", the interval and the tag of the effective mode
StemOf(t) == [j \in 1..Len(t) |-> IF t[j] = "/" THEN "_" ELSE t[j]]

Trimmed(t) ==
    LET keep == {j \in 1..Len(t) : t[j] \notin {" ", "\t", "\n"}}
        lo == CHOOSE j \in keep : \A h \in keep : j <= h
        hi == CHOOSE j \in keep : \A h \in keep : j >= h
    IN  IF keep = {} THEN <<>> ELSE SubSeq(t, lo, hi)

Saved == {k \in 1..Len(cfg0.tickers) : LinesOf({"saved"}, k) # {}}

\* C7, amended. The files of out_dir are exactly one per distinct file name
\* among the saved entries (entries whose fetch had rows and whose write
\* succeeded); saved entries of the same name (duplicates, "/" against "_")
\* share one file, which is the write of the last of them.
C7_OneFilePerSavedName ==
    /\ \A f \in files :
           /\ f.by \in Saved
           /\ f.name.stem = StemOf(Trimmed(cfg0.tickers[f.by]))
           /\ f.name.interval = cfg0.interval
           /\ f.name.tag = (IF cfg.mode = "range" THEN <<cfg0.start, cfg0.end>>
                            ELSE IF cfg.mode = "period"
                                 THEN <<IF cfg.period = None THEN "1mo" ELSE cfg.period>>
                                 ELSE <<"max">>)
           /\ \A k \in Saved :
                  StemOf(Trimmed(cfg0.tickers[k])) = f.name.stem => k <= f.by
    /\ \A k \in Saved : \E f \in files : f.name.stem = StemOf(Trimmed(cfg0.tickers[k]))
    /\ \A f, g \in files : f.name = g.name => f = g
    /\ Cardinality(files) = Cardinality({StemOf(Trimmed(cfg0.tickers[k])) : k \in Saved})

C7_Witness ==
    /\ pc = "done"
    /\ Cardinality(Saved) = 2
    /\ Cardinality(files) = 1
    /\ cfg0.tickers[1] # cfg0.tickers[2]
    /\ \E f \in files : f.by = 2

\* C8. An absent or empty result is not an error: the step that finds it
\* writes no file, logs one warning line for the entry, raises nothing and
\* goes on to the next entry; an entry with a no-data line has exactly one,
\* and has no error line, no saved line and no file.
C8_EmptyIsNotAnError ==
    /\ [][ (pc = "check" /\ df.table \in {"absent", "empty"}) =>
             /\ files' = files
             /\ log' = Append(log, [kind |-> "no_data", ticker |-> Trimmed(cfg0.tickers[i]), idx |-> i])
             /\ i' = i + 1
             /\ pc' = "loop"
             /\ exc' = "none" ]_vars
    /\ [](\A k \in 1..Len(cfg0.tickers) :
             LinesOf({"no_data"}, k) # {} =>
                 /\ Cardinality(LinesOf({"no_data"}, k)) = 1
                 /\ LinesOf({"fetch_error", "save_error", "saved"}, k) = {}
                 /\ \A f \in files : f.by # k)

C8_Witness ==
    /\ pc = "done"
    /\ Len(cfg0.tickers) = 2
    /\ LinesOf({"no_data"}, 1) # {}
    /\ LinesOf({"fetch_error", "save_error", "saved"}, 1) = {}
    /\ \A f \in files : f.by # 1
    /\ LinesOf({"saved"}, 2) # {}

====
